---- MODULE Spec2Model ----
(***************************************************************************)
(* Three programs of the toolbox, each with its own specification over its *)
(* own variables: the ECB exchange-rate store of ecbx (Spec), the rounding *)
(* of harvest_rounder (RounderSpec) and the Wise importer of               *)
(* sevdesk-invoicer (ImporterSpec).                                        *)
(*                                                                         *)
(* The ECB exchange-rate store of ecbx (src/ecbx/store.py): one            *)
(* ExchangeRateStore object over one SQLite connection.  The tables are    *)
(* the state, every public method is one action, and the ECB feed that a   *)
(* method fetches is an input chosen by the environment.                   *)
(*                                                                         *)
(* Dates are ISO strings "YYYY-MM-DD"; they are modelled as <<y, m, d>>    *)
(* and compared field by field, which is the lexicographic order of the    *)
(* zero-padded strings.  Rates are fixed-point numbers in units of         *)
(* 1/RateScale; a quotient or product is rounded to that precision, as the *)
(* program's arithmetic is rounded to the precision of its number type.    *)
(***************************************************************************)
EXTENDS Integers, Sequences, FiniteSets, TLC

\* ---- bounds of the model ----
NumDays == 6          \* calendar days a behaviour ranges over
MaxFeedDates == 2     \* date nodes in one feed
MaxCalls == 3         \* method calls on the store in one behaviour
RateScale == 1000     \* rates are multiples of 1/RateScale
MaxHoursNum == 7      \* harvest_rounder: numerators of hours range over -MaxHoursNum .. MaxHoursNum
MaxHoursDen == 5      \* harvest_rounder: denominators of hours range over 1 .. MaxHoursDen
MaxRuns == 2          \* wise importer: runs of the importer in one behaviour
MaxRecords == 2       \* wise importer: records of the CSV file of one run

\* ---- Python's None and Optional values ----
None == <<>>
Some(x) == <<x>>

\* ---- constants.py ----
BEFORE == "before"
AFTER == "after"
CLOSEST == "closest"

\* ---- calendar: the days a behaviour ranges over ----
BaseDate == <<2021, 12, 30>>       \* a Thursday

IsLeap(y) == (y % 4 = 0 /\ y % 100 # 0) \/ y % 400 = 0

DaysInMonth(y, m) ==
    IF m = 2 THEN (IF IsLeap(y) THEN 29 ELSE 28)
    ELSE IF m \in {4, 6, 9, 11} THEN 30 ELSE 31

NextDay(dt) ==
    IF dt[3] < DaysInMonth(dt[1], dt[2]) THEN <<dt[1], dt[2], dt[3] + 1>>
    ELSE IF dt[2] < 12 THEN <<dt[1], dt[2] + 1, 1>>
    ELSE <<dt[1] + 1, 1, 1>>

RECURSIVE DayAt(_)
DayAt(i) == IF i = 0 THEN BaseDate ELSE NextDay(DayAt(i - 1))

DayIndexes == 0 .. (NumDays - 1)
CalendarDays == {DayAt(i) : i \in DayIndexes}
DayIndex(dt) == CHOOSE i \in DayIndexes : DayAt(i) = dt
\* datetime.weekday(): Monday is 0; BaseDate is a Thursday
Weekday(dt) == (3 + DayIndex(dt)) % 7
\* The dates a feed can carry: the ECB publishes on business days; the series
\* starts after the first calendar day and the last day's rates are not out yet,
\* so that callers can also ask for days before and after all published dates.
Dates ==
    {dt \in CalendarDays :
        Weekday(dt) < 5 /\ DayIndex(dt) > 0 /\ DayIndex(dt) < NumDays - 1}

\* ---- string order of ISO dates (Python str <=, SQLite TEXT <=) ----
StrLE(a, b) ==
    \/ a[1] < b[1]
    \/ a[1] = b[1] /\ a[2] < b[2]
    \/ a[1] = b[1] /\ a[2] = b[2] /\ a[3] <= b[3]

MaxDate(S) == CHOOSE d \in S : \A e \in S : StrLE(e, d)
MinDate(S) == CHOOSE d \in S : \A e \in S : StrLE(d, e)

\* ---- SQLite julianday() of an ISO date (integer part) ----
JulianDay(dt) ==
    LET Y == IF dt[2] <= 2 THEN dt[1] - 1 ELSE dt[1]
        M == IF dt[2] <= 2 THEN dt[2] + 12 ELSE dt[2]
        A == Y \div 100
        B == 2 - A + (A \div 4)
        X1 == (36525 * (Y + 4716)) \div 100
        X2 == (306001 * (M + 1)) \div 10000
    IN  X1 + X2 + dt[3] + B - 1524

Abs(x) == IF x < 0 THEN 0 - x ELSE x

\* ---- rate arithmetic ----
\* Decimal(1) / rate
Inverse(r) == ((RateScale * RateScale) + (r \div 2)) \div r
\* eur_to_target_rate * base_to_eur_rate
Mul(a, b) == ((a * b) + (RateScale \div 2)) \div RateScale

\* ---- currency codes ----
EUR == "EUR"
NonEur == {"USD", "GBP"}
\* str.upper() on the codes a caller passes
Upper(code) ==
    CASE code \in {"eur", "Eur", "EUR"} -> "EUR"
      [] code \in {"usd", "Usd", "USD"} -> "USD"
      [] code \in {"gbp", "Gbp", "GBP"} -> "GBP"
      [] OTHER -> code

\* ---- the ECB feed: what fetch_ecb_data + parse_ecb_xml return ----
\* one <Cube time=...> node: the currencies it quotes, each with its rate.
\* The ECB publishes either both currencies, or USD alone at another rate.
FeedNodes ==
    { [c \in {"USD", "GBP"} |-> IF c = "USD" THEN 2 * RateScale ELSE 3 * RateScale],
      [c \in {"USD"} |-> 3 * RateScale] }
\* a parsed feed: its date nodes
Feeds ==
    UNION {[ds -> FeedNodes] :
              ds \in {s \in SUBSET Dates : Cardinality(s) <= MaxFeedDates}}
\* the outcome of one fetch: fetch_ecb_data returned None, parse_ecb_xml
\* returned None, or the parsed root with its date nodes
FetchError == [status |-> "fetch_error", root |-> <<>>]
ParseError == [status |-> "parse_error", root |-> <<>>]
Fetches == {FetchError, ParseError} \cup {[status |-> "ok", root |-> f] : f \in Feeds}

VARIABLES
    tables,       \* the tables currencies, rates and metadata exist
    currencies,   \* table currencies: the set of codes
    rates,        \* table rates: <<date, base_currency, target_currency>> -> rate
    metadata,     \* row 'last_updated' of table metadata: None or Some(date)
    calls,        \* method calls made so far
    last,         \* the last call: its name, its inputs, its return value, the
                  \* feed it fetched and the currency nodes it ingested, by date
    increment_minutes,  \* harvest_rounder: args.increment of the run
    entry,              \* harvest_rounder: the TimeEntry parsed last, or None
    state_file,             \* wise importer: the import-state file: None, or Some(ids)
    sevdesk,                \* wise importer: transaction id -> transactions created for it
    pc,                     \* wise importer: "exited", or "records" inside main's loop
    args,                   \* wise importer: the command line of the run
    imported_transactions,  \* wise importer: main's set of imported transaction ids
    cache,                  \* wise importer: Accounts.cache
    requests,               \* wise importer: currency -> get_check_accounts requests of the run
    runs,                   \* wise importer: runs started so far
    records_read,           \* wise importer: records read by the run
    result,                 \* wise importer: what the last import_record did
    wise,       \* wise_exporter: the WiseClient and its http_request call
    upload,     \* paperless-cli: the upload_document call
    skr,        \* sevdesk_api: the AccountingTypeOperations object and its last call
    resolver,   \* sevdesk_api: the ObjectResolver object and its last call
    harvest     \* harvest: the get_time_entries call

storeVars == <<tables, currencies, rates, metadata, calls, last>>
rounderVars == <<increment_minutes, entry>>
importerVars == <<state_file, sevdesk, pc, args, imported_transactions, cache, requests,
                  runs, records_read, result>>
clientVars == <<wise, upload, skr, resolver, harvest>>
outsideStore == <<rounderVars, importerVars, clientVars>>
outsideRounder == <<storeVars, importerVars, clientVars>>
outsideImporter == <<storeVars, rounderVars, clientVars>>
outsideWise == <<storeVars, rounderVars, importerVars, upload, skr, resolver, harvest>>
vars == <<storeVars, rounderVars, importerVars, clientVars>>
db == <<tables, currencies, rates, metadata>>

HasRow(rs, d, b, t) == <<d, b, t>> \in DOMAIN rs

\* the currencies of the date nodes ds of a feed
Quoted(feed, ds) == [d \in ds |-> DOMAIN feed[d]]

\* this call is the method of the call before it, fetching the same data
Repeats(op, fetched) ==
    last.op = op /\ last.args = fetched.status /\ last.feed = fetched.root

\* ---- ExchangeRateStore._check_tables_exist ----
check_tables_exist == tables

\* ---- the insert loop shared by initialize() and update() ----
\* variant: the inverse row stores the rate itself
IngestRates_NoInverse(rs, feed, ds) ==
    LET eurKeys == UNION {{<<d, EUR, c>> : c \in DOMAIN feed[d]} : d \in ds}
        invKeys == UNION {{<<d, c, EUR>> : c \in DOMAIN feed[d]} : d \in ds}
    IN  [k \in DOMAIN rs \cup eurKeys \cup invKeys |->
            IF k \in eurKeys THEN feed[k[1]][k[3]]
            ELSE IF k \in invKeys THEN feed[k[1]][k[2]]
            ELSE rs[k]]

\* INSERT OR REPLACE of EUR->currency and currency->EUR for the nodes ds
IngestRates(rs, feed, ds) ==
    LET eurKeys == UNION {{<<d, EUR, c>> : c \in DOMAIN feed[d]} : d \in ds}
        invKeys == UNION {{<<d, c, EUR>> : c \in DOMAIN feed[d]} : d \in ds}
    IN  [k \in DOMAIN rs \cup eurKeys \cup invKeys |->
            IF k \in eurKeys THEN feed[k[1]][k[3]]
            ELSE IF k \in invKeys THEN Inverse(feed[k[1]][k[2]])
            ELSE rs[k]]

\* INSERT OR IGNORE INTO currencies for the nodes ds
IngestCurrencies(cur, feed, ds) == cur \cup UNION {DOMAIN feed[d] : d \in ds}

\* rate_count += 2 for every currency node
IngestCount(feed, ds) ==
    LET keys == UNION {{<<d, c>> : c \in DOMAIN feed[d]} : d \in ds}
    IN  2 * Cardinality(keys)

\* ---- ExchangeRateStore.initialize ----
\* the state and the return value after initialize() fetched `feed`
InitializeResult(cur, rs, md, fetched) ==
    LET feed == fetched.root IN
    IF fetched.status # "ok"
    THEN [tables |-> TRUE, currencies |-> cur \cup {EUR}, rates |-> rs,
          metadata |-> md, ret |-> <<0, 0>>, ingested |-> {}]
    ELSE [tables |-> TRUE,
          currencies |-> IngestCurrencies(cur \cup {EUR}, feed, DOMAIN feed),
          rates |-> IngestRates(rs, feed, DOMAIN feed),
          metadata |-> IF DOMAIN feed # {} THEN Some(MaxDate(DOMAIN feed)) ELSE md,
          ret |-> <<IngestCount(feed, DOMAIN feed), Cardinality(DOMAIN feed)>>,
          ingested |-> DOMAIN feed]

initialize ==
    /\ calls < MaxCalls
    /\ \E fetched \in Fetches :
          LET r == InitializeResult(currencies, rates, metadata, fetched)
          IN  /\ tables' = r.tables
              /\ currencies' = r.currencies
              /\ rates' = r.rates
              /\ metadata' = r.metadata
              /\ last' = [op |-> "initialize", args |-> fetched.status, ret |-> r.ret,
                          feed |-> fetched.root,
                          quoted |-> Quoted(fetched.root, r.ingested),
                          repeat |-> Repeats("initialize", fetched)]
    /\ calls' = calls + 1
    /\ UNCHANGED outsideStore

\* ---- ExchangeRateStore.get_last_update_date ----
\* variant: the metadata row is looked up under a key that is never written
GetLastUpdateDate_WrongKey(tb, md) == None

\* SELECT value FROM metadata WHERE key = 'last_updated'
GetLastUpdateDate(tb, md) == IF ~tb THEN None ELSE md

\* ---- ExchangeRateStore._calculate_cross_rates ----
\* SELECT DISTINCT target_currency FROM rates WHERE date = ? AND base_currency = 'EUR'
QuotedOn(rs, d) == {k[3] : k \in {x \in DOMAIN rs : x[1] = d /\ x[2] = EUR}}

\* the ordered pairs (base, target) the two loops reach an INSERT for
CrossPairs(rs, d) ==
    {p \in QuotedOn(rs, d) \X QuotedOn(rs, d) :
        /\ p[1] # EUR
        /\ HasRow(rs, d, p[1], EUR)
        /\ p[2] # EUR
        /\ p[2] # p[1]
        /\ HasRow(rs, d, EUR, p[2])}

\* cross_rate = eur_to_target_rate * base_to_eur_rate
CrossRate(rs, d, base, target) == Mul(rs[<<d, EUR, target>>], rs[<<d, base, EUR>>])

\* the rates table after _calculate_cross_rates(d)
CalculateCrossRates(rs, d) ==
    LET keys == {<<d, p[1], p[2]>> : p \in CrossPairs(rs, d)}
    IN  [k \in DOMAIN rs \cup keys |->
            IF k \in keys THEN CrossRate(rs, d, k[2], k[3]) ELSE rs[k]]

\* its return value: the number of cross-rates calculated
CrossCount(rs, d) == Cardinality(CrossPairs(rs, d))

\* ---- ExchangeRateStore.update ----
\* variant: a date node is skipped only if date_str < last_update
NewDates_Inclusive(feed, last_update) ==
    {d \in DOMAIN feed : ~(last_update # None /\ StrLE(d, last_update[1]) /\ d # last_update[1])}

\* the date nodes update() does not skip: date_str > last_update
NewDates(feed, last_update) ==
    {d \in DOMAIN feed : ~(last_update # None /\ StrLE(d, last_update[1]))}

\* the dates update() calculates cross-rates for
CrossDates(ingested) == IF ingested = {} THEN {} ELSE {MaxDate(ingested)}

\* variant: the last update date is returned when nothing was fetched
UpdateNothingFetched_LastDate(tb, cur, rs, md) ==
    [tables |-> tb, currencies |-> cur, rates |-> rs, metadata |-> md,
     ret |-> <<0, md>>, ingested |-> {}]

\* xml_data is None or root is None: return (0, None)
UpdateNothingFetched(tb, cur, rs, md) ==
    [tables |-> tb, currencies |-> cur, rates |-> rs, metadata |-> md,
     ret |-> <<0, None>>, ingested |-> {}]

\* the state and the return value after update() fetched `fetched`
UpdateResult(tb, cur, rs, md, fetched) ==
    IF ~tb
    THEN LET r == InitializeResult(cur, rs, md, fetched)
         IN  [r EXCEPT !.ret = <<r.ret[1], GetLastUpdateDate(r.tables, r.metadata)>>]
    ELSE IF fetched.status # "ok"
    THEN UpdateNothingFetched(tb, cur, rs, md)
    ELSE LET feed == fetched.root
             ingested == NewDates(feed, GetLastUpdateDate(tb, md))
             inserted == IngestRates(rs, feed, ingested)
         IN  IF CrossDates(ingested) = {}
             THEN [tables |-> tb, currencies |-> cur, rates |-> rs, metadata |-> md,
                   ret |-> <<0, None>>, ingested |-> {}]
             ELSE LET latest_date == CHOOSE d \in CrossDates(ingested) : TRUE
                  IN  [tables |-> tb,
                       currencies |-> IngestCurrencies(cur, feed, ingested),
                       rates |-> CalculateCrossRates(inserted, latest_date),
                       metadata |-> Some(latest_date),
                       ret |-> <<IngestCount(feed, ingested)
                                   + CrossCount(inserted, latest_date),
                                 Some(latest_date)>>,
                       ingested |-> ingested]

update ==
    /\ calls < MaxCalls
    /\ \E fetched \in Fetches :
          LET r == UpdateResult(tables, currencies, rates, metadata, fetched)
          IN  /\ tables' = r.tables
              /\ currencies' = r.currencies
              /\ rates' = r.rates
              /\ metadata' = r.metadata
              /\ last' = [op |-> "update", args |-> fetched.status, ret |-> r.ret,
                          feed |-> fetched.root,
                          quoted |-> Quoted(fetched.root, r.ingested),
                          repeat |-> Repeats("update", fetched)]
    /\ calls' = calls + 1
    /\ UNCHANGED outsideStore

\* ---- ExchangeRateStore.get_rate ----
LATEST == <<"latest">>

\* SELECT date FROM rates WHERE base_currency = ? AND target_currency = ?
PairDates(rs, b, t) == {k[1] : k \in {x \in DOMAIN rs : x[2] = b /\ x[3] = t}}

\* variant: ORDER BY date ASC
BeforeDates_Asc(rs, b, t, date_str) ==
    LET ds == {d \in PairDates(rs, b, t) : StrLE(d, date_str)}
    IN  IF ds = {} THEN {} ELSE {MinDate(ds)}

\* WHERE date <= ? ... ORDER BY date DESC LIMIT 1
BeforeDates(rs, b, t, date_str) ==
    LET ds == {d \in PairDates(rs, b, t) : StrLE(d, date_str)}
    IN  IF ds = {} THEN {} ELSE {MaxDate(ds)}

\* variant: ORDER BY date DESC
AfterDates_Desc(rs, b, t, date_str) ==
    LET ds == {d \in PairDates(rs, b, t) : StrLE(date_str, d)}
    IN  IF ds = {} THEN {} ELSE {MaxDate(ds)}

\* WHERE date >= ? ... ORDER BY date ASC LIMIT 1
AfterDates(rs, b, t, date_str) ==
    LET ds == {d \in PairDates(rs, b, t) : StrLE(date_str, d)}
    IN  IF ds = {} THEN {} ELSE {MinDate(ds)}

\* variant: the difference without ABS
Diff_Signed(d, date_str) == JulianDay(d) - JulianDay(date_str)

\* ABS(julianday(date) - julianday(?)) as diff
Diff(d, date_str) == Abs(JulianDay(d) - JulianDay(date_str))

\* ORDER BY diff ASC LIMIT 1: any row of minimal diff (SQLite leaves ties open)
ClosestDates(rs, b, t, date_str) ==
    {d \in PairDates(rs, b, t) :
        \A e \in PairDates(rs, b, t) : Diff(d, date_str) <= Diff(e, date_str)}

\* variant: a strategy that is none of the three is served as 'closest'
StrategyDates_UnknownAsClosest(rs, b, t, date_str, closest_rate) ==
    IF closest_rate = Some(BEFORE) THEN BeforeDates(rs, b, t, date_str)
    ELSE IF closest_rate = Some(AFTER) THEN AfterDates(rs, b, t, date_str)
    ELSE ClosestDates(rs, b, t, date_str)

\* the dates the fallback query can return under the strategy closest_rate
StrategyDates(rs, b, t, date_str, closest_rate) ==
    IF closest_rate = Some(BEFORE) THEN BeforeDates(rs, b, t, date_str)
    ELSE IF closest_rate = Some(AFTER) THEN AfterDates(rs, b, t, date_str)
    ELSE IF closest_rate = Some(CLOSEST) THEN ClosestDates(rs, b, t, date_str)
    ELSE {}

\* variant: the code is used as passed
Normalize_AsPassed(code) == code

\* base_currency.upper(), target_currency.upper()
Normalize(code) == Upper(code)

\* the values get_rate can return
GetRate(tb, rs, md, base_currency, target_currency, as_of_date, closest_rate) ==
    IF ~tb THEN {<<None, None>>}
    ELSE IF as_of_date = LATEST /\ md = None THEN {<<None, None>>}
    ELSE
      LET b == Normalize(base_currency)
          t == Normalize(target_currency)
          date_str == IF as_of_date = LATEST THEN md[1] ELSE as_of_date
          found == StrategyDates(rs, b, t, date_str, closest_rate)
      IN  IF HasRow(rs, date_str, b, t)
          THEN {<<Some(date_str), Some(rs[<<date_str, b, t>>])>>}
          ELSE IF closest_rate = None \/ found = {}
          THEN {<<Some(date_str), None>>}
          ELSE {<<Some(d), Some(rs[<<d, b, t>>])>> : d \in found}

\* the arguments the callers pass
QueryPairs == {<<"eur", "GBP">>, <<"usd", "gbp">>}
QueryDates == CalendarDays \cup {LATEST}
Strategies == {None, Some(BEFORE), Some(AFTER), Some(CLOSEST), Some("nearest")}

get_rate ==
    /\ calls < MaxCalls
    /\ \E p \in QueryPairs, as_of_date \in QueryDates, closest_rate \in Strategies :
         \E r \in GetRate(tables, rates, metadata, p[1], p[2], as_of_date, closest_rate) :
            last' = [op |-> "get_rate",
                     args |-> <<p[1], p[2], as_of_date, closest_rate>>,
                     ret |-> r, quoted |-> <<>>, feed |-> <<>>, repeat |-> FALSE]
    /\ calls' = calls + 1
    /\ UNCHANGED outsideStore
    /\ UNCHANGED db

\* ---- ExchangeRateStore.get_last_update_date ----
get_last_update_date ==
    /\ calls < MaxCalls
    /\ last' = [op |-> "get_last_update_date", args |-> None,
                ret |-> GetLastUpdateDate(tables, metadata), quoted |-> <<>>, feed |-> <<>>, repeat |-> FALSE]
    /\ calls' = calls + 1
    /\ UNCHANGED outsideStore
    /\ UNCHANGED db

\* ---- ExchangeRateStore.list_currencies ----
ListCurrencies(tb, cur) == IF ~tb THEN {} ELSE cur

list_currencies ==
    /\ calls < MaxCalls
    /\ last' = [op |-> "list_currencies", args |-> None,
                ret |-> ListCurrencies(tables, currencies), quoted |-> <<>>, feed |-> <<>>, repeat |-> FALSE]
    /\ calls' = calls + 1
    /\ UNCHANGED outsideStore
    /\ UNCHANGED db

\* ---- ExchangeRateStore.get_stats ----
AllDates(rs) == {k[1] : k \in DOMAIN rs}

\* variant: no check that the tables exist
GetStats_NoGuard(tb, cur, rs, md) ==
    [initialized |-> TRUE, last_updated |-> md,
     currency_count |-> Cardinality(cur),
     rate_count |-> Cardinality(DOMAIN rs),
     date_range |-> IF AllDates(rs) = {} THEN <<None, None>>
                    ELSE <<Some(MinDate(AllDates(rs))), Some(MaxDate(AllDates(rs)))>>]

GetStats(tb, cur, rs, md) ==
    IF ~tb
    THEN [initialized |-> FALSE, last_updated |-> None, currency_count |-> 0,
          rate_count |-> 0, date_range |-> <<None, None>>]
    ELSE [initialized |-> TRUE, last_updated |-> md,
          currency_count |-> Cardinality(cur),
          rate_count |-> Cardinality(DOMAIN rs),
          date_range |-> IF AllDates(rs) = {} THEN <<None, None>>
                         ELSE <<Some(MinDate(AllDates(rs))), Some(MaxDate(AllDates(rs)))>>]

get_stats ==
    /\ calls < MaxCalls
    /\ last' = [op |-> "get_stats", args |-> None,
                ret |-> GetStats(tables, currencies, rates, metadata), quoted |-> <<>>, feed |-> <<>>, repeat |-> FALSE]
    /\ calls' = calls + 1
    /\ UNCHANGED outsideStore
    /\ UNCHANGED db

StoreInit ==
    /\ tables = FALSE
    /\ currencies = {}
    /\ rates = <<>>
    /\ metadata = None
    /\ calls = 0
    /\ last = [op |-> "__init__", args |-> None, ret |-> None, quoted |-> <<>>, feed |-> <<>>, repeat |-> FALSE]

\* no time entry has been parsed; --increment has its default
RounderIdle ==
    /\ increment_minutes = 15
    /\ entry = None

\* the importer has not run: no import-state file, nothing created in SevDesk
ImporterIdle ==
    /\ state_file = None
    /\ sevdesk = <<>>
    /\ pc = "exited"
    /\ args = [dry_run |-> FALSE, ignore_currency |-> {}, import_neutral |-> {}]
    /\ imported_transactions = {}
    /\ cache = <<>>
    /\ requests = <<>>
    /\ runs = 0
    /\ records_read = 0
    /\ result = None

\* no WiseClient, AccountingTypeOperations or ObjectResolver has been
\* constructed, and upload_document and get_time_entries have not been called
ClientsIdle ==
    /\ wise = None
    /\ upload = None
    /\ skr = None
    /\ resolver = None
    /\ harvest = None

Init ==
    /\ StoreInit
    /\ RounderIdle
    /\ ImporterIdle
    /\ ClientsIdle

Next ==
    \/ initialize
    \/ update
    \/ get_rate
    \/ get_last_update_date
    \/ list_currencies
    \/ get_stats

Spec == Init /\ [][Next]_vars

(***************************************************************************)
(* harvest_rounder (src/harvest_rounder/__init__.py).  Hours are Python    *)
(* Fractions: <<numerator, denominator>> in lowest terms, denominator > 0. *)
(***************************************************************************)
RECURSIVE Gcd(_, _)
Gcd(a, b) == IF b = 0 THEN a ELSE Gcd(b, a % b)

\* Fraction(numerator, denominator), denominator # 0
Fraction(n, d) ==
    LET sn == IF d < 0 THEN 0 - n ELSE n
        sd == Abs(d)
        g == Gcd(Abs(sn), sd)
    IN  <<sn \div g, sd \div g>>

FractionDiv(a, b) == Fraction(a[1] * b[2], a[2] * b[1])
FractionTimes(a, k) == Fraction(a[1] * k, a[2])

\* int(Fraction): truncation towards zero
FractionInt(a) == IF a[1] >= 0 THEN a[1] \div a[2] ELSE 0 - ((0 - a[1]) \div a[2])

round_to_increment(hours, m) ==
    LET increment_hours == Fraction(m, 60)
        increments == FractionDiv(hours, increment_hours)
        rounded_increments == FractionInt(increments) + 1
    IN  IF hours = Fraction(0, 1) THEN Fraction(0, 1)
        ELSE IF increments[2] = 1 THEN hours
        ELSE FractionTimes(increment_hours, rounded_increments)

\* --increment of the command line
IncrementChoices == {5, 6, 10, 12, 15, 20, 30, 60}

\* entry["hours"] of a time entry of the Harvest API
Hours == {Fraction(n, d) : n \in (0 - MaxHoursNum) .. MaxHoursNum, d \in 1 .. MaxHoursDen}

parse_time_entry ==
    /\ \E hours \in Hours :
          entry' = Some([hours |-> hours,
                         rounded_hours |-> round_to_increment(hours, increment_minutes)])
    /\ UNCHANGED <<increment_minutes, outsideRounder>>

RounderInit ==
    /\ StoreInit
    /\ ImporterIdle
    /\ ClientsIdle
    /\ increment_minutes \in IncrementChoices
    /\ entry = None

RounderNext == parse_time_entry

RounderSpec == RounderInit /\ [][RounderNext]_vars

(***************************************************************************)
(* The Wise importer (src/sevdesk-invoicer/sevdesk_wise_importer).  A run  *)
(* of main reads the import-state file, imports the records of the CSV     *)
(* file one by one, each a step, and writes the file after every record    *)
(* unless --dry-run is given.  die() ends the run at once.  The answers of *)
(* the SevDesk API are inputs.  A record id is <<kind, number>> for the    *)
(* string "kind-number"; times are numbers.  The amount, the names and the *)
(* reference of a record only travel to SevDesk and are left out.          *)
(***************************************************************************)
WiseCurrencies == {"EUR", "USD"}

\* --add-account of the command line: currency -> account number
AddAccount == [c \in {"EUR"} |-> "BE00"]

\* ALIASES, applied with str.replace
Alias(record_id) ==
    IF record_id[1] = "CARD_TRANSACTION" THEN <<"CARD", record_id[2]>>
    ELSE IF record_id[1] = "DIRECT_DEBIT_TRANSACTION" THEN <<"DIRECT_DEBIT", record_id[2]>>
    ELSE record_id

RecordIds == {<<"TRANSFER", 1>>, <<"CARD_TRANSACTION", 2>>, <<"CARD", 2>>}
Statuses == {"COMPLETED", "REFUNDED", "CANCELLED", "PENDING"}
Directions == {"IN", "OUT", "NEUTRAL", "UNKNOWN"}
Times == {1, 2}

\* the rows csv.DictReader yields; a row that is left before its currencies
\* and times are read comes with one choice of them
Records ==
    {r \in [ID : RecordIds, Status : Statuses, Direction : Directions,
            Source : WiseCurrencies, Target : WiseCurrencies,
            Created : Times, Finished : Times] :
        /\ r.Created # r.Finished
        /\ (r.Status # "COMPLETED" \/ r.Direction = "UNKNOWN") =>
              (r.Source = "EUR" /\ r.Target = "EUR" /\ r.Created = 1)
        /\ r.Status # "COMPLETED" => (r.Direction = "IN" /\ r.ID = <<"TRANSFER", 1>>)}

\* name = f"Wise ({currency}, {account_id})"
AccountName(currency, account_id) == <<"Wise", currency, account_id>>

\* the check accounts SevDesk can list
CheckAccountObjects ==
    {[name |-> AccountName("EUR", "BE00"), type |-> "online", id |-> 7],
     [name |-> AccountName("EUR", "BE00"), type |-> "register", id |-> 8]}

SevDeskError == [error |-> "SevDeskError"]

\* what api.check_accounts.get_check_accounts() answers or raises
CheckAccountResponses == {SevDeskError} \cup {[objects |-> os] : os \in SUBSET CheckAccountObjects}

\* Accounts.get_or_create_account: Some(id), or None where it calls die()
get_or_create_account(currency, ch, res) ==
    IF currency \notin DOMAIN AddAccount THEN None
    ELSE IF currency \in DOMAIN ch THEN Some(ch[currency])
    ELSE IF res = SevDeskError THEN None
    ELSE LET name == AccountName(currency, AddAccount[currency])
             found == {obj \in res.objects : obj.name = name /\ obj.type # "register"}
         IN  IF found = {} THEN None ELSE Some((CHOOSE obj \in found : TRUE).id)

\* get_or_create_account(currency) gets as far as get_check_accounts()
RequestsCheckAccounts(currency, ch) ==
    currency \in DOMAIN AddAccount /\ currency \notin DOMAIN ch

\* the requests of the run after import_record did r
RequestsAfter(rq, r, ch) ==
    IF r.account_of # None /\ RequestsCheckAccounts(r.account_of[1], ch)
    THEN LET c == r.account_of[1]
         IN  [x \in DOMAIN rq \cup {c} |->
                 IF x = c THEN (IF c \in DOMAIN rq THEN rq[c] ELSE 0) + 1 ELSE rq[x]]
    ELSE rq

\* what import_record did: where it left, the transaction id if it got that
\* far, the import state, the warning, the create_transaction call, and the
\* currency it called get_or_create_account for
Left(outcome, import_state) ==
    [outcome |-> outcome, transaction_id |-> None, import_state |-> import_state,
     warned |-> FALSE, create |-> FALSE, account_of |-> None]

\* the currency of a record, by direction
RecordCurrency(record) ==
    IF record.Direction = "OUT" THEN record.Source ELSE record.Target

\* variant: no transaction counts as imported
AlreadyImported_Never(transaction_id, import_state) == FALSE

\* transaction_id in import_state
AlreadyImported(transaction_id, import_state) == transaction_id \in import_state

\* import_record, given what the API answers: res to get_check_accounts and
\* created (success or SevDeskError) to create_transaction
import_record(record, import_state, a, ch, res, created) ==
    IF record.Status = "REFUNDED" THEN Left("skip_refunded", import_state)
    ELSE IF record.Status = "CANCELLED" THEN Left("skip_cancelled", import_state)
    ELSE IF record.Status # "COMPLETED" THEN Left("die_status", import_state)
    ELSE IF record.Direction \notin {"IN", "OUT", "NEUTRAL"}
    THEN Left("die_direction", import_state)
    ELSE IF record.Direction = "NEUTRAL"
            /\ <<record.Source, record.Target>> \notin a.import_neutral
    THEN Left("skip_neutral", import_state)
    ELSE IF RecordCurrency(record) \in a.ignore_currency
            /\ record.Direction \in {"IN", "OUT"}
    THEN Left("skip_ignored", import_state)
    ELSE
      LET currency == RecordCurrency(record)
          account_number == get_or_create_account(currency, ch, res)
      IN  IF account_number = None
          THEN [Left("die_account", import_state) EXCEPT !.account_of = Some(currency)]
          ELSE
            LET transaction_id == <<currency, account_number[1], Alias(record.ID)>>
                warned == record.Created > record.Finished
            IN  IF AlreadyImported(transaction_id, import_state)
                THEN [Left("skip_imported", import_state)
                         EXCEPT !.transaction_id = Some(transaction_id),
                                !.account_of = Some(currency)]
                ELSE [outcome |-> IF a.dry_run THEN "dry_run"
                                  ELSE IF created THEN "created" ELSE "die_create",
                      transaction_id |-> Some(transaction_id),
                      import_state |-> import_state \cup {transaction_id},
                      warned |-> warned,
                      create |-> ~a.dry_run,
                      account_of |-> Some(currency)]

Died(r) == r.outcome \in {"die_status", "die_direction", "die_account", "die_create"}

\* variant: the import state is also written when the run dies
StateFileAfter_WrittenOnExit(file, r, dry_run) ==
    IF dry_run THEN file ELSE Some(r.import_state)

\* main, lines 259-262: the file as it is after one record of the loop
StateFileAfter(file, r, dry_run) ==
    IF dry_run \/ Died(r) THEN file ELSE Some(r.import_state)

\* variant: the transaction is created in a dry run too
SevDeskAfter_DryRunCreates(sd, r) ==
    IF r.outcome \in {"created", "dry_run"} THEN Append(sd, r.transaction_id[1]) ELSE sd

\* SevDesk after the record: a successful create_transaction adds a transaction
SevDeskAfter(sd, r) ==
    IF r.outcome = "created" THEN Append(sd, r.transaction_id[1]) ELSE sd

\* main up to the loop: the command line is parsed, the import state is read
main ==
    /\ pc = "exited"
    /\ runs < MaxRuns
    /\ \E dry_run \in BOOLEAN, ignore_currency \in {{}, {"USD"}},
          import_neutral \in {{}, {<<"USD", "EUR">>}} :
          args' = [dry_run |-> dry_run, ignore_currency |-> ignore_currency,
                   import_neutral |-> import_neutral]
    /\ imported_transactions' = IF state_file = None THEN {} ELSE state_file[1]
    /\ cache' = <<>>
    /\ requests' = <<>>
    /\ runs' = runs + 1
    /\ records_read' = 0
    /\ pc' = "records"
    /\ UNCHANGED <<state_file, sevdesk, result, outsideImporter>>

\* one turn of main's loop: import_record and the write of the state file
import_next_record ==
    /\ pc = "records"
    /\ records_read < MaxRecords
    /\ \E record \in Records, res \in CheckAccountResponses, created \in BOOLEAN :
          LET r == import_record(record, imported_transactions, args, cache, res, created)
          IN  /\ result' = Some(r)
              /\ imported_transactions' = r.import_state
              /\ sevdesk' = SevDeskAfter(sevdesk, r)
              /\ state_file' = StateFileAfter(state_file, r, args.dry_run)
              /\ requests' = RequestsAfter(requests, r, cache)
              /\ pc' = IF Died(r) THEN "exited" ELSE "records"
    /\ records_read' = records_read + 1
    /\ UNCHANGED <<args, cache, runs, outsideImporter>>

\* the CSV file has no more records: main returns
end_of_records ==
    /\ pc = "records"
    /\ pc' = "exited"
    /\ UNCHANGED <<state_file, sevdesk, args, imported_transactions, cache, requests,
                   runs, records_read, result, outsideImporter>>

ImporterInit ==
    /\ StoreInit
    /\ RounderIdle
    /\ ImporterIdle
    /\ ClientsIdle

ImporterNext ==
    \/ main
    \/ import_next_record
    \/ end_of_records

ImporterSpec == ImporterInit /\ [][ImporterNext]_vars

(***************************************************************************)
(* wise_exporter (src/wise-exporter/wise_exporter/__init__.py): one        *)
(* WiseClient and the calls of its http_request.  A call is a sequence of  *)
(* steps: the first send, the breakpoint() of the HTTPError handler, the   *)
(* dispatch on the error, the handling of the 2FA challenge, and the       *)
(* retry.  The answers of the Wise API and of the person at the terminal   *)
(* are inputs.  die() ends the process.                                    *)
(***************************************************************************)
MaxHttpCalls == 2

\* the headers http_request puts on every request
RequestHeaders == {"Authorization", "User-Agent"}

HTTPCodes == {400, 401, 403, 404, 409, 418, 429, 500}

\* the second word of an x-2fa-approval header
ChallengeWords == {"SIGNATURE", "signature", "PIN", "SMS", "BOGUS"}

\* the x-2fa-approval header of an error response: absent, or a one-time
\* token followed or not by a challenge type
Approvals ==
    {None} \cup
    {Some([explicit_challenge_type |-> t]) : t \in {None} \cup {Some(w) : w \in ChallengeWords}}

HTTPErrors == [code : HTTPCodes, x_2fa_approval : Approvals]

\* what _http_request does with a request: a WiseResult, an HTTPError it
\* re-raises, or any other exception, which it turns into a RuntimeError
SendAnswers ==
    {[kind |-> k, e |-> None] : k \in {"result", "RuntimeError"}} \cup
    {[kind |-> "HTTPError", e |-> Some(x)] : x \in HTTPErrors}

\* what the token status request gives to _handle_2fa_challenge: an error
\* raised by _http_request, a reply without data, or the token status with
\* the required challenge _find_required_challenge finds in it
TokenStatusAnswers ==
    {[kind |-> k, found |-> FALSE, type |-> None] : k \in {"HTTPError", "RuntimeError", "no_data", "status"}} \cup
    {[kind |-> "status", found |-> TRUE, type |-> t] : t \in {None} \cup {Some(w) : w \in ChallengeWords}}

\* str.upper() on the challenge words
upper(w) == IF w = "signature" THEN "SIGNATURE" ELSE w

Raised(type, e) == Some([type |-> type, e |-> e])

\* the challenge type _handle_2fa_challenge decides to handle: the one of
\* the header, upper-cased, else the one of the token status
challenge_type_to_handle(explicit_challenge_type, status) ==
    IF explicit_challenge_type # None
    THEN [outcome |-> "ok", type |-> Some(upper(explicit_challenge_type[1]))]
    ELSE IF status.kind \in {"HTTPError", "RuntimeError"}
    THEN [outcome |-> status.kind, type |-> None]
    ELSE IF status.kind = "no_data" \/ ~status.found
    THEN [outcome |-> "died", type |-> None]
    ELSE [outcome |-> "ok", type |-> status.type]

\* _handle_2fa_challenge: the outcome and the headers of the retry.
\* verified: the PIN or the one-time code was accepted
handle_2fa_challenge(signer, explicit_challenge_type, retry_headers, status, verified) ==
    LET chosen == challenge_type_to_handle(explicit_challenge_type, status)
        end(o) == [outcome |-> o, retry_headers |-> retry_headers]
    IN IF chosen.outcome # "ok" THEN end(chosen.outcome)
       ELSE IF chosen.type = None THEN end("died")
       ELSE IF chosen.type[1] = "PIN"
       THEN end(IF verified THEN "handled" ELSE "died")
       ELSE IF chosen.type[1] = "SIGNATURE"
       THEN IF ~signer THEN end("died")
            ELSE [outcome |-> "handled",
                  retry_headers |-> retry_headers \cup {"One-Time-Token", "X-Signature"}]
       ELSE IF chosen.type[1] \in {"SMS", "WHATSAPP", "VOICE"}
       THEN end(IF verified THEN "handled" ELSE "died")
       ELSE end("died")

\* the response is a 2FA challenge
Is2FA(e) == e.code = 403 /\ e.x_2fa_approval # None

\* what http_request does with an HTTPError that is not a 2FA challenge
OtherHTTPError(e) ==
    IF e.code \in {400, 401, 403, 429} \/ (e.code # 404 /\ e.code # 409 /\ e.code >= 500)
    THEN [pc |-> "died", raised |-> None]
    ELSE IF e.code = 404
    THEN [pc |-> "raised", raised |-> Raised("RuntimeError", Some(e))]
    ELSE [pc |-> "raised", raised |-> Raised("HTTPError", Some(e))]

\* http_request is called and sends the request
http_request ==
    /\ wise.pc \in {"ready", "returned", "raised"}
    /\ wise.calls < MaxHttpCalls
    /\ \E answer \in SendAnswers :
          wise' = [wise EXCEPT
                     !.calls = @ + 1,
                     !.sent = <<RequestHeaders>>,
                     !.handled = 0,
                     !.retry_headers = {},
                     !.e = answer.e,
                     !.raised = IF answer.kind = "RuntimeError"
                                THEN Raised("RuntimeError", None) ELSE None,
                     !.pc = IF answer.kind = "result" THEN "returned"
                            ELSE IF answer.kind = "HTTPError" THEN "except"
                            ELSE "raised"]
    /\ UNCHANGED outsideWise

\* the handler of the HTTPError starts with breakpoint(): the debugger
\* stops the call until the person at the terminal continues it or quits,
\* and quitting (or the end of the input) raises BdbQuit
breakpoint ==
    /\ wise.pc = "except"
    /\ \E command \in {"continue", "quit"} :
          wise' = IF command = "continue"
                  THEN [wise EXCEPT !.pc = "handler"]
                  ELSE [wise EXCEPT !.pc = "raised", !.raised = Raised("BdbQuit", None)]
    /\ UNCHANGED outsideWise

\* the handler looks at the error: a 2FA challenge goes to its handling if
\* there is a signer, every other error ends the call
handle_http_error ==
    /\ wise.pc = "handler"
    /\ LET e == wise.e[1] IN
          wise' = IF Is2FA(e)
                  THEN IF ~wise.signer THEN [wise EXCEPT !.pc = "died"]
                       ELSE [wise EXCEPT !.pc = "challenge",
                                         !.retry_headers = RequestHeaders]
                  ELSE [wise EXCEPT !.pc = OtherHTTPError(e).pc,
                                    !.raised = OtherHTTPError(e).raised]
    /\ UNCHANGED outsideWise

\* _handle_2fa_challenge is called; an error it raises leaves http_request
handle_challenge ==
    /\ wise.pc = "challenge"
    /\ \E status \in TokenStatusAnswers, verified \in BOOLEAN :
          LET r == handle_2fa_challenge(wise.signer,
                       wise.e[1].x_2fa_approval[1].explicit_challenge_type,
                       wise.retry_headers, status, verified)
          IN wise' = [wise EXCEPT
                        !.handled = @ + 1,
                        !.retry_headers = r.retry_headers,
                        !.raised = IF r.outcome \in {"HTTPError", "RuntimeError"}
                                   THEN Raised(r.outcome, None) ELSE None,
                        !.pc = IF r.outcome = "handled" THEN "retry"
                               ELSE IF r.outcome = "died" THEN "died"
                               ELSE "raised"]
    /\ UNCHANGED outsideWise

\* the request is sent again with the retry headers; the retry is made
\* inside the except block, so an error of the retry leaves http_request
retry ==
    /\ wise.pc = "retry"
    /\ \E answer \in SendAnswers :
          wise' = [wise EXCEPT
                     !.sent = Append(@, wise.retry_headers),
                     !.raised = IF answer.kind = "result" THEN None
                                ELSE Raised(answer.kind, answer.e),
                     !.pc = IF answer.kind = "result" THEN "returned" ELSE "raised"]
    /\ UNCHANGED outsideWise

WiseInit ==
    /\ StoreInit
    /\ RounderIdle
    /\ ImporterIdle
    /\ upload = None
    /\ skr = None
    /\ resolver = None
    /\ harvest = None
    /\ \E signer \in BOOLEAN :
          wise = [signer |-> signer, pc |-> "ready", calls |-> 0, sent |-> <<>>,
                  handled |-> 0, retry_headers |-> {}, e |-> None, raised |-> None]

WiseNext ==
    \/ http_request
    \/ breakpoint
    \/ handle_http_error
    \/ handle_challenge
    \/ retry

WiseSpec == WiseInit /\ [][WiseNext]_vars

(***************************************************************************)
(* paperless-cli (src/paperless-cli/paperless_cli/cli/documents.py): one   *)
(* call of upload_document.  The upload is a step and every turn of the    *)
(* polling loop is a step; the answers of the Paperless API are inputs.    *)
(***************************************************************************)
MaxPolls == 4

\* Task.status
TaskStatuses == {"PENDING", "STARTED", "SUCCESS", "FAILURE", "RETRY", "REVOKED"}

\* what client.get_task_status returns: None if the task list is empty,
\* else the first task
TaskAnswers == {None} \cup {Some(s) : s \in TaskStatuses}

\* the status is not in ["PENDING", "STARTED"] (Processing_OnlyPending: the
\* test with "STARTED" left out)
Processing_OnlyPending(status) == status = "PENDING"

Processing(status) == status \in {"PENDING", "STARTED"}

\* what the loop prints for a task that is no longer processing
Completed(status) == IF status = "SUCCESS" THEN "success" ELSE "failed"

\* upload_document up to its polling loop: the file check and the upload
upload_document ==
    /\ upload.pc = "ready"
    /\ \E exists \in BOOLEAN, answer \in {"task_id", "no_task_id", "PaperlessAPIError"} :
          upload' = IF ~exists
                    THEN [upload EXCEPT !.pc = "returned", !.report = "file_not_found"]
                    ELSE IF answer = "PaperlessAPIError"
                    THEN [upload EXCEPT !.pc = "returned", !.uploads = @ + 1,
                                        !.report = "error"]
                    ELSE IF answer = "no_task_id"
                    THEN [upload EXCEPT !.pc = "returned", !.uploads = @ + 1,
                                        !.report = "no_task_id"]
                    ELSE [upload EXCEPT !.pc = "polling", !.uploads = @ + 1,
                                        !.task_id = TRUE]
    /\ UNCHANGED <<storeVars, rounderVars, importerVars, wise, skr, resolver, harvest>>

\* one turn of the polling loop: get_task_status, then the return or the
\* sleep before the next turn
poll ==
    /\ upload.pc = "polling"
    /\ Len(upload.seen) < MaxPolls
    /\ \/ \E task \in TaskAnswers :
             upload' = IF task = None
                       THEN [upload EXCEPT !.seen = Append(@, task),
                                           !.pc = "returned", !.report = "not_found"]
                       ELSE IF ~Processing(task[1])
                       THEN [upload EXCEPT !.seen = Append(@, task),
                                           !.pc = "returned",
                                           !.report = Completed(task[1])]
                       ELSE [upload EXCEPT !.seen = Append(@, task),
                                           !.dots = @ + 1]
       \/ upload' = [upload EXCEPT !.seen = Append(@, Some("PaperlessAPIError")),
                                   !.pc = "returned", !.report = "error"]
    /\ UNCHANGED <<storeVars, rounderVars, importerVars, wise, skr, resolver, harvest>>

UploadInit ==
    /\ StoreInit
    /\ RounderIdle
    /\ ImporterIdle
    /\ wise = None
    /\ skr = None
    /\ resolver = None
    /\ harvest = None
    /\ upload = [pc |-> "ready", uploads |-> 0, task_id |-> FALSE, seen |-> <<>>,
                 dots |-> 0, report |-> "none"]

UploadNext ==
    \/ upload_document
    \/ poll

UploadSpec == UploadInit /\ [][UploadNext]_vars

(***************************************************************************)
(* sevdesk_api.accounting_types: one AccountingTypeOperations object and   *)
(* the calls of get_accounting_type_by_skr and clear_cache on it.  The     *)
(* answers of the AccountDatev endpoint are inputs: the batches of         *)
(* accounting types, and whether one of the requests fails.                *)
(***************************************************************************)
MaxSkrCalls == 4
MaxBatches == 2

\* the accounting types SevDesk may hold: two with the same number, one
\* with another, one without number
AccountingTypes ==
    {[id |-> 1, number |-> Some("5400")], [id |-> 2, number |-> Some("5400")],
     [id |-> 3, number |-> Some("6300")], [id |-> 4, number |-> None]}

\* the SKR numbers looked up
SkrNumbers == {"5400", "6300", "9999"}

\* the "objects" of one response of get_accounting_types
ObjectLists ==
    {<<>>} \cup {<<a>> : a \in AccountingTypes} \cup
    {<<a, b>> : a \in {x \in AccountingTypes : x.id = 1},
                b \in {x \in AccountingTypes : x.id # 1}}

\* the responses to the requests of one _build_skr_cache: the first request
\* and the later batches
BatchAnswers ==
    UNION {[1..n -> ObjectLists] : n \in 1..MaxBatches}

RECURSIVE Extend(_, _)
\* result["objects"] after the batches from i on were appended
Extend(batches, i) ==
    IF i > Len(batches) THEN <<>> ELSE batches[i] \o Extend(batches, i + 1)

RECURSIVE CacheOf(_, _)
\* the cache after the first k objects were entered: objects without number
\* are left out, a later object replaces an earlier one with its number
CacheOf(objects, k) ==
    IF k = 0 THEN <<>>
    ELSE LET acc_type == objects[k]
             before == CacheOf(objects, k - 1)
         IN IF acc_type.number = None THEN before
            ELSE [n \in DOMAIN before \cup {acc_type.number[1]} |->
                     IF n = acc_type.number[1] THEN acc_type ELSE before[n]]

\* _build_skr_cache: the cache is set to {} first, then the requests are
\* made; the request fail_at raises (0: none does), which leaves the cache
\* empty
build_skr_cache(batches, fail_at) ==
    IF fail_at > 0
    THEN [cache |-> Some(<<>>), requests |-> fail_at, raised |-> TRUE]
    ELSE [cache |-> Some(CacheOf(Extend(batches, 1), Len(Extend(batches, 1)))),
          requests |-> Len(batches), raised |-> FALSE]

\* dict.get
Get(d, k) == IF k \in DOMAIN d THEN Some(d[k]) ELSE None

\* the cache has to be built (NeedsBuild_Always: built at every lookup)
NeedsBuild_Always(skr_cache) == TRUE

NeedsBuild(skr_cache) == skr_cache = None

get_accounting_type_by_skr ==
    /\ skr.calls < MaxSkrCalls
    /\ \E skr_number \in SkrNumbers, batches \in BatchAnswers :
       \E fail_at \in 0..Len(batches) :
          LET built == IF NeedsBuild(skr._skr_cache)
                       THEN build_skr_cache(batches, fail_at)
                       ELSE [cache |-> skr._skr_cache, requests |-> 0, raised |-> FALSE]
          IN skr' = [skr EXCEPT
                       !._skr_cache = built.cache,
                       !.requests = @ + built.requests,
                       !.calls = @ + 1,
                       !.lookups = @ + 1,
                       !.last = [op |-> "get_accounting_type_by_skr",
                                 skr_number |-> skr_number,
                                 raised |-> built.raised,
                                 ret |-> IF built.raised THEN None
                                         ELSE Get(built.cache[1], skr_number)]]
    /\ UNCHANGED <<storeVars, rounderVars, importerVars, wise, upload, resolver, harvest>>

clear_cache ==
    /\ skr.calls < MaxSkrCalls
    /\ skr' = [skr EXCEPT
                 !._skr_cache = None,
                 !.calls = @ + 1,
                 !.lookups = 0,
                 !.last = [op |-> "clear_cache", skr_number |-> "", raised |-> FALSE,
                           ret |-> None]]
    /\ UNCHANGED <<storeVars, rounderVars, importerVars, wise, upload, resolver, harvest>>

\* lookups: the lookups made since the construction or the last clear_cache
SkrInit ==
    /\ StoreInit
    /\ RounderIdle
    /\ ImporterIdle
    /\ wise = None
    /\ upload = None
    /\ resolver = None
    /\ harvest = None
    /\ skr = [_skr_cache |-> None, requests |-> 0, calls |-> 0, lookups |-> 0,
              last |-> [op |-> "__init__", skr_number |-> "", raised |-> FALSE,
                        ret |-> None]]

SkrNext ==
    \/ get_accounting_type_by_skr
    \/ clear_cache

SkrSpec == SkrInit /\ [][SkrNext]_vars

(***************************************************************************)
(* sevdesk_api.object_resolver: one ObjectResolver and the calls of        *)
(* get_object on it.  The responses of the API to the fetches of a call    *)
(* are inputs: a list of objects, or an error raised by client.get.        *)
(***************************************************************************)
MaxResolverCalls == 2

ObjectTypes == {"Unity", "TaxRule"}
KeyFields == {"translationCode", "name"}

\* the keys looked up
Keys == {"UNITY_HOUR", "hour", "missing"}

\* the objects the API may return; an empty string is a field without value
ApiObjects ==
    {[id |-> 1, translationCode |-> "UNITY_HOUR", name |-> "hour"],
     [id |-> 2, translationCode |-> "", name |-> "hour"]}

\* the response to one request of _fetch_objects: its "objects", or the
\* error client.get raises
ApiError == [error |-> TRUE, objects |-> <<>>]

FetchAnswers ==
    {ApiError} \cup
    {[error |-> FALSE, objects |-> l] :
        l \in {<<>>} \cup {<<a>> : a \in ApiObjects} \cup
              {<<a, b>> : a \in ApiObjects, b \in ApiObjects}}

\* obj.get(key_field)
Field(obj, key_field) == IF key_field = "name" THEN obj.name ELSE obj.translationCode

RECURSIVE object_map(_, _, _)
\* _fetch_objects: the map after the first k objects of the response
object_map(objects, key_field, k) ==
    IF k = 0 THEN <<>>
    ELSE LET obj == objects[k]
             before == object_map(objects, key_field, k - 1)
             key_value == Field(obj, key_field)
         IN IF key_value = "" THEN before
            ELSE [v \in DOMAIN before \cup {key_value} |->
                     IF v = key_value THEN [id |-> obj.id, name |-> obj.name]
                     ELSE before[v]]

fetch_objects(answer, key_field) ==
    object_map(answer.objects, key_field, Len(answer.objects))

\* self._cache[cache_key] = ...
Store(cache_, cache_key, m) ==
    [ck \in DOMAIN cache_ \cup {cache_key} |-> IF ck = cache_key THEN m ELSE cache_[ck]]

\* key not in self._cache[cache_key] (Absent_Always: refresh at every call)
Absent_Always(cache_, cache_key, key) == TRUE

Absent(cache_, cache_key, key) == key \notin DOMAIN cache_[cache_key]

\* get_object with the answers to its first and its second request
get_object_result(cache_, object_type, key, key_field, first, second) ==
    LET cache_key == <<object_type, key_field>>
        end(c, n, raised) ==
            [cache |-> c, fetches |-> n, raised |-> raised,
             ret |-> IF raised = "" THEN Some(c[cache_key][key]) ELSE None]
        refresh(c, n, answer) ==
            IF answer = ApiError THEN end(c, n + 1, "SevDeskError")
            ELSE LET c2 == Store(c, cache_key, fetch_objects(answer, key_field))
                 IN IF key \notin DOMAIN c2[cache_key]
                    THEN end(c2, n + 1, "ValueError")
                    ELSE end(c2, n + 1, "")
    IN IF cache_key \notin DOMAIN cache_
       THEN IF first = ApiError THEN end(cache_, 1, "SevDeskError")
            ELSE LET c1 == Store(cache_, cache_key, fetch_objects(first, key_field))
                 IN IF Absent(c1, cache_key, key) THEN refresh(c1, 1, second)
                    ELSE end(c1, 1, "")
       ELSE IF Absent(cache_, cache_key, key) THEN refresh(cache_, 0, first)
            ELSE end(cache_, 0, "")

get_object ==
    /\ resolver.calls < MaxResolverCalls
    /\ \E object_type \in ObjectTypes, key \in Keys, key_field \in KeyFields,
          first \in FetchAnswers, second \in FetchAnswers :
          LET r == get_object_result(resolver._cache, object_type, key, key_field,
                                     first, second)
          IN resolver' = [resolver EXCEPT
                            !._cache = r.cache,
                            !.fetches = @ + r.fetches,
                            !.calls = @ + 1,
                            !.last = [cache_key |-> <<object_type, key_field>>,
                                      key |-> key, raised |-> r.raised, ret |-> r.ret]]
    /\ UNCHANGED <<storeVars, rounderVars, importerVars, wise, upload, skr, harvest>>

ResolverInit ==
    /\ StoreInit
    /\ RounderIdle
    /\ ImporterIdle
    /\ wise = None
    /\ upload = None
    /\ skr = None
    /\ harvest = None
    /\ resolver = [_cache |-> <<>>, fetches |-> 0, calls |-> 0,
                   last |-> [cache_key |-> <<"", "">>, key |-> "", raised |-> "",
                             ret |-> None]]

ResolverNext == get_object

ResolverSpec == ResolverInit /\ [][ResolverNext]_vars

(***************************************************************************)
(* harvest and harvest_rounder: one call of get_time_entries.  The two     *)
(* functions have the same loop; the one of harvest_rounder parses every   *)
(* entry.  A URL is the number of its page, the first one the initial URL; *)
(* the responses of the Harvest API are inputs, and the next link of a     *)
(* page is null or the URL of a later page.  Every turn of the loop is a   *)
(* step.                                                                   *)
(***************************************************************************)
MaxPages == 3

\* the initial URL
FirstPage == 1

\* time entries of the Harvest API
RawEntries == {[id |-> 1, hours |-> Fraction(1, 3)], [id |-> 2, hours |-> Fraction(1, 4)]}

\* resp["time_entries"]
EntryLists ==
    {<<>>} \cup {<<a>> : a \in RawEntries} \cup
    {<<a, b>> : a \in RawEntries, b \in RawEntries}

\* the responses http_request may return for the URL url
Responses(url) ==
    [time_entries : EntryLists, next : {None} \cup {Some(p) : p \in (url + 1) .. MaxPages}]

\* parse_time_entry, as far as the entry is modelled
parsed(raw, increment) ==
    [id |-> raw.id, hours |-> raw.hours,
     rounded_hours |-> round_to_increment(raw.hours, increment)]

\* what the loop appends for a page: the entries themselves in harvest, the
\* parsed entries in harvest_rounder
Appended(module, time_entries) ==
    IF module = "harvest" THEN time_entries
    ELSE [i \in 1 .. Len(time_entries) |-> parsed(time_entries[i], 15)]

\* entries.extend(...) (extend_replace: the list is replaced by the page)
extend_replace(entries, more) == more

extend(entries, more) == entries \o more

\* the function is called: the headers and the initial URL are set up
get_time_entries ==
    /\ harvest.pc = "ready"
    /\ \E module \in {"harvest", "harvest_rounder"} :
          harvest' = [harvest EXCEPT !.pc = "loop", !.module = module,
                                     !.url = Some(FirstPage)]
    /\ UNCHANGED <<storeVars, rounderVars, importerVars, wise, upload, skr, resolver>>

\* one turn of the loop: the request of url, the entries of the response
\* appended, url set to the next link; the loop ends when it is None.  An
\* error raised by http_request leaves the function
request_page ==
    /\ harvest.pc = "loop"
    /\ harvest.url # None
    /\ \/ \E resp \in Responses(harvest.url[1]) :
             harvest' = [harvest EXCEPT
                           !.requested = Append(@, harvest.url[1]),
                           !.received = Append(@, resp),
                           !.entries = extend(@, Appended(harvest.module, resp.time_entries)),
                           !.url = resp.next,
                           !.pc = IF resp.next = None THEN "returned" ELSE "loop"]
       \/ harvest' = [harvest EXCEPT
                        !.requested = Append(@, harvest.url[1]),
                        !.pc = "raised"]
    /\ UNCHANGED <<storeVars, rounderVars, importerVars, wise, upload, skr, resolver>>

HarvestInit ==
    /\ StoreInit
    /\ RounderIdle
    /\ ImporterIdle
    /\ wise = None
    /\ upload = None
    /\ skr = None
    /\ resolver = None
    /\ harvest = [pc |-> "ready", module |-> "", url |-> None, entries |-> <<>>,
                  requested |-> <<>>, received |-> <<>>]

HarvestNext ==
    \/ get_time_entries
    \/ request_page

HarvestSpec == HarvestInit /\ [][HarvestNext]_vars

(***************************************************************************)
(* Properties.  The calendar order and the distance of two days are taken  *)
(* from their position in the calendar, not from the string order or the   *)
(* Julian day the store computes with.                                     *)
(***************************************************************************)
OnOrBefore(d, e) == DayIndex(d) <= DayIndex(e)
DaysApart(d, e) == Abs(DayIndex(d) - DayIndex(e))

\* the last call was get_rate on a store whose tables exist, and the date it
\* asked for resolves ('latest' needs a recorded last_updated)
Queried ==
    /\ last.op = "get_rate"
    /\ tables
    /\ last.args[3] = LATEST => metadata # None
QBase == Upper(last.args[1])
QTarget == Upper(last.args[2])
QDate == IF last.args[3] = LATEST THEN metadata[1] ELSE last.args[3]
QStrategy == last.args[4]
QStored == PairDates(rates, QBase, QTarget)
Row(d) == <<Some(d), Some(rates[<<d, QBase, QTarget>>])>>

\* C1: on an initialized store, get_rate with closest_rate 'before' returns the
\* pair's row at the latest stored date on or before the requested date: never a
\* later date, and never an earlier one when a later one on or before it exists.
C1_BeforeIsLatestOnOrBefore ==
    (Queried /\ QStrategy = Some(BEFORE)) =>
        LET ds == {d \in QStored : OnOrBefore(d, QDate)}
        IN  ds # {} =>
              \E d \in ds : /\ \A e \in ds : OnOrBefore(e, d)
                            /\ last.ret = Row(d)

C1_Witness ==
    /\ Queried /\ QStrategy = Some(BEFORE)
    /\ QDate \notin QStored
    /\ Cardinality({d \in QStored : OnOrBefore(d, QDate)}) >= 2
    /\ last.ret[2] # None

\* C2: on an initialized store, get_rate with closest_rate 'closest' returns the
\* pair's row at a stored date whose distance in days from the requested date is
\* minimal over all stored dates of the pair, on either side.
C2_ClosestIsNearest ==
    (Queried /\ QStrategy = Some(CLOSEST)) =>
        (QStored # {} =>
           \E d \in QStored :
              /\ \A e \in QStored : DaysApart(d, QDate) <= DaysApart(e, QDate)
              /\ last.ret = Row(d))

C2_Witness ==
    /\ Queried /\ QStrategy = Some(CLOSEST)
    /\ \E d \in QStored, e \in QStored :
          /\ OnOrBefore(d, QDate) /\ d # QDate
          /\ OnOrBefore(QDate, e) /\ e # QDate
          /\ DaysApart(e, QDate) < DaysApart(d, QDate)
          /\ last.ret = Row(e)

\* C3: on an initialized store, get_rate with closest_rate 'after' returns the
\* pair's row at the earliest stored date on or after the requested date: never
\* an earlier date, and never a later one when an earlier one on or after it exists.
C3_AfterIsEarliestOnOrAfter ==
    (Queried /\ QStrategy = Some(AFTER)) =>
        LET ds == {d \in QStored : OnOrBefore(QDate, d)}
        IN  ds # {} =>
              \E d \in ds : /\ \A e \in ds : OnOrBefore(d, e)
                            /\ last.ret = Row(d)

C3_Witness ==
    /\ Queried /\ QStrategy = Some(AFTER)
    /\ QDate \notin QStored
    /\ Cardinality({d \in QStored : OnOrBefore(QDate, d)}) >= 2
    /\ last.ret[2] # None

\* x is the fixed-point number nearest to 1/r
IsReciprocal(x, r) == 2 * Abs((x * r) - (RateScale * RateScale)) <= r
\* x is num/den up to one unit of the rate precision
IsQuotient(x, num, den) == Abs((x * den) - (num * RateScale)) <= den
\* the rows between two currencies other than EUR
CrossKeys == {k \in DOMAIN rates : k[2] # EUR /\ k[3] # EUR /\ k[2] # k[3]}
\* the most recent date that has a row in the rates table
MostRecentDate ==
    CHOOSE d \in AllDates(rates) : \A e \in AllDates(rates) : OnOrBefore(e, d)

\* C4: every stored cross-rate row for a date d and a pair (base, target) of
\* distinct non-EUR currencies has the value rate(EUR->target, d) x
\* rate(base->EUR, d) of the EUR-quoted rows stored for the same date d.
C4_CrossRowsMatchEurRows ==
    \A k \in CrossKeys :
        /\ HasRow(rates, k[1], EUR, k[3])
        /\ HasRow(rates, k[1], k[2], EUR)
        /\ rates[k] = Mul(rates[<<k[1], EUR, k[3]>>], rates[<<k[1], k[2], EUR>>])

\* C5: after initialize() has ingested a feed, for every ingested date d and every
\* two distinct non-EUR currencies A and B quoted on d, get_rate(A, B, d) returns
\* the date d and the rate rate(EUR->B, d) / rate(EUR->A, d).
C5_CrossRatesAfterInitialize ==
    (last.op = "initialize" /\ last.args = "ok") =>
        \A d \in DOMAIN last.quoted :
           \A A \in last.quoted[d], B \in last.quoted[d] :
              A # B =>
                \A r \in GetRate(tables, rates, metadata, A, B, d, None) :
                    /\ r[1] = Some(d)
                    /\ r[2] # None
                    /\ IsQuotient(r[2][1], rates[<<d, EUR, B>>], rates[<<d, EUR, A>>])

\* C6: after any sequence of initialize() and update() calls, every stored row
\* EUR->X with rate r on a date d has a stored row X->EUR on the same date d
\* whose rate is 1/r.
C6_InverseRowForEveryEurRow ==
    \A k \in DOMAIN rates :
        k[2] = EUR =>
            /\ HasRow(rates, k[1], k[3], EUR)
            /\ IsReciprocal(rates[<<k[1], k[3], EUR>>], rates[k])

C6_Witness ==
    /\ last.op = "update"
    /\ DOMAIN last.quoted # {}
    /\ CrossKeys # {}
    /\ \E k \in DOMAIN rates : k[2] = EUR /\ k[1] \notin DOMAIN last.quoted

\* C7: when a row exists for exactly (requested date, base, target), get_rate
\* returns that date and that row's rate under every closest_rate strategy, and
\* the currency codes are matched whatever their case.
C7_ExactRowIsReturned ==
    (Queried /\ HasRow(rates, QDate, QBase, QTarget)) => last.ret = Row(QDate)

C7_Witness ==
    /\ Queried
    /\ HasRow(rates, QDate, QBase, QTarget)
    /\ last.args[1] # QBase
    /\ QStrategy = Some(AFTER)
    /\ last.ret = Row(QDate)

\* C8: get_rate with as_of_date 'latest' returns the rate stored for the most
\* recent date in the store, which is the date recorded as last_updated, for any
\* pair that has a row on that date.
C8_LatestIsMostRecentStoredDate ==
    (last.op = "get_rate" /\ tables /\ last.args[3] = LATEST /\ AllDates(rates) # {}) =>
        (HasRow(rates, MostRecentDate, QBase, QTarget) => last.ret = Row(MostRecentDate))

\* C9: on a database on which initialize() has never run, every query returns its
\* empty result - get_rate (None, None), list_currencies [], get_last_update_date
\* None, get_stats initialized=False with zero counts - and creates no table and
\* no row.
QueryOps == {"get_rate", "list_currencies", "get_last_update_date", "get_stats"}
EmptyResult(op) ==
    CASE op = "get_rate" -> <<None, None>>
      [] op = "list_currencies" -> {}
      [] op = "get_last_update_date" -> None
      [] op = "get_stats" ->
            [initialized |-> FALSE, last_updated |-> None, currency_count |-> 0,
             rate_count |-> 0, date_range |-> <<None, None>>]
C9_QueriesOnUninitializedStore ==
    [][(~tables /\ last'.op \in QueryOps) =>
          (db' = db /\ last'.ret = EmptyResult(last'.op))]_vars

C9_Witness ==
    /\ ~tables
    /\ last.op = "get_stats"
    /\ last.ret.initialized = FALSE
    /\ calls = MaxCalls

\* C10: when the feed cannot be fetched or parsed, update() returns (0, None),
\* adds no rate row and leaves last_updated unchanged, whether or not the
\* database was initialized before the call.
C10_FailedUpdateChangesNothing ==
    [][(last'.op = "update" /\ last'.args # "ok") =>
          (last'.ret = <<0, None>> /\ rates' = rates /\ metadata' = metadata)]_vars

C10_Witness ==
    /\ last.op = "update"
    /\ last.args = "parse_error"
    /\ metadata # None
    /\ DOMAIN rates # {}

\* C12: an update() of an initialized store leaves, for every date it
\* ingested, the cross-rate row of every ordered pair of distinct currencies
\* the feed quotes on that date, and not only for one of the dates.
C12_CrossRatesForEveryIngestedDate ==
    [][(tables /\ last'.op = "update") =>
          \A d \in DOMAIN last'.quoted :
             \A b \in last'.quoted[d], t \in last'.quoted[d] :
                b # t => HasRow(rates', d, b, t)]_vars

\* the latest, by the calendar, of the dates that have a row in rs
LatestStored(rs) == CHOOSE d \in AllDates(rs) : \A e \in AllDates(rs) : OnOrBefore(e, d)

\* C13: an update() of an initialized store that has a last_updated date
\* ingests only feed dates strictly later than it, and leaves every row of a
\* date on or before it as it was: none added, none removed, none changed.
C13_UpdateIngestsOnlyLaterDates ==
    [][(tables /\ metadata # None /\ last'.op = "update") =>
          /\ \A d \in DOMAIN last'.quoted : ~OnOrBefore(d, metadata[1])
          /\ \A k \in DOMAIN rates \cup DOMAIN rates' :
                OnOrBefore(k[1], metadata[1]) =>
                    /\ k \in DOMAIN rates
                    /\ k \in DOMAIN rates'
                    /\ rates'[k] = rates[k]]_vars

\* an update() skipped a date for which the feed carries another rate than
\* the one stored, and ingested a later date
C13_Witness ==
    /\ last.op = "update" /\ last.args = "ok"
    /\ DOMAIN last.quoted # {}
    /\ \E d \in DOMAIN last.feed \ DOMAIN last.quoted :
          \E c \in DOMAIN last.feed[d] :
             /\ HasRow(rates, d, EUR, c)
             /\ rates[<<d, EUR, c>>] # last.feed[d][c]

\* C14: over every initialize() and update(), last_updated never moves to an
\* earlier date, and once the rates table has rows it is the latest date that
\* has a row.
C14_LastUpdatedIsMonotoneMaxDate ==
    [][/\ metadata # None =>
            (metadata' # None /\ OnOrBefore(metadata[1], metadata'[1]))
       /\ AllDates(rates') # {} => metadata' = Some(LatestStored(rates'))]_vars

\* C15: an update() that directly follows an update() which fetched the same
\* feed changes no table and returns (0, None).
C15_UpdateIsIdempotent ==
    [][(last'.op = "update" /\ last'.repeat) =>
          (db' = db /\ last'.ret = <<0, None>>)]_vars

\* the second of two update() calls with one feed, the first of which ingested
\* that feed's rows
C15_Witness ==
    /\ last.op = "update" /\ last.repeat /\ last.args = "ok"
    /\ DOMAIN last.feed # {}
    /\ metadata = Some(MaxDate(DOMAIN last.feed))
    /\ \E d \in DOMAIN last.feed : \E c \in DOMAIN last.feed[d] :
          HasRow(rates, d, EUR, c) /\ rates[<<d, EUR, c>>] = last.feed[d][c]

\* C16: an initialize() of an uninitialized database that cannot fetch or
\* parse the feed leaves it uninitialized: _check_tables_exist() is still false.
C16_FailedInitializeLeavesUninitialized ==
    [][(~tables /\ last'.op = "initialize" /\ last'.args # "ok") => ~tables']_vars

\* no rate can be resolved for the last get_rate call: there is no exact row,
\* and no policy was given, or an unrecognised one, or no row satisfies it
Unresolvable ==
    /\ QDate \notin QStored
    /\ \/ QStrategy = None
       \/ QStrategy \notin {Some(BEFORE), Some(AFTER), Some(CLOSEST)}
       \/ QStrategy = Some(BEFORE) /\ \A d \in QStored : ~OnOrBefore(d, QDate)
       \/ QStrategy = Some(AFTER) /\ \A d \in QStored : ~OnOrBefore(QDate, d)
       \/ QStrategy = Some(CLOSEST) /\ QStored = {}

FracLE(a, b) == a[1] * b[2] <= b[1] * a[2]
FracLT(a, b) == a[1] * b[2] < b[1] * a[2]
\* a is k * m/60 hours for an integer k
IsMultipleOfIncrement(a, m) == (a[1] * 60) % (a[2] * m) = 0
\* a minus m/60 hours, not reduced
LessOneIncrement(a, m) == <<(a[1] * 60) - (m * a[2]), a[2] * 60>>

\* C11: round_to_increment(hours, m) is the smallest multiple of m/60 hours
\* that is >= hours: a multiple, not below hours, and less than one
\* increment above hours (so 0 and every exact multiple are returned as is).
C11_RoundsUpToNextIncrement ==
    entry # None =>
        LET hours == entry[1].hours
            rounded == entry[1].rounded_hours
        IN  /\ IsMultipleOfIncrement(rounded, increment_minutes)
            /\ FracLE(hours, rounded)
            /\ FracLT(LessOneIncrement(rounded, increment_minutes), hours)

(***************************************************************************)
(* The Wise importer: properties.                                          *)
(***************************************************************************)
\* the transactions created in SevDesk for the transaction id
Creations(sd, id) == Cardinality({i \in DOMAIN sd : sd[i] = id})
ImportedIds(file) == IF file = None THEN {} ELSE file[1]

\* C18: over all runs on one import-state file, a run that dies on a failed
\* create included, no transaction id is created in SevDesk more than once, and
\* an id enters the file only in the step that created it.
C18_CreatedAtMostOnceAndFileOnlyCreated ==
    [][/\ \A i \in DOMAIN sevdesk' : Creations(sevdesk', sevdesk'[i]) = 1
       /\ \A id \in ImportedIds(state_file') \ ImportedIds(state_file) :
             Creations(sevdesk', id) = Creations(sevdesk, id) + 1]_vars

\* the second run died on a failed create: the id it failed on is not in the
\* file and not in SevDesk, the ids created before it are in both
C18_Witness ==
    /\ runs = 2
    /\ pc = "exited"
    /\ result # None
    /\ result[1].outcome = "die_create"
    /\ result[1].transaction_id[1] \notin ImportedIds(state_file)
    /\ Creations(sevdesk, result[1].transaction_id[1]) = 0
    /\ \E id \in ImportedIds(state_file) : Creations(sevdesk, id) = 1

\* C19: import_record makes no create_transaction call for a record whose
\* transaction id is already in the import state.
C19_ImportedIsNeverCreatedAgain ==
    [][(pc = "records" /\ result' # None /\ records_read' # records_read
          /\ result'[1].transaction_id # None
          /\ result'[1].transaction_id[1] \in imported_transactions) =>
             (~result'[1].create /\ sevdesk' = sevdesk)]_vars

\* a record of a run that is no dry run was skipped as imported within the run
\* that created its transaction
C19_Witness ==
    /\ runs = 1
    /\ pc = "records"
    /\ result # None
    /\ ~args.dry_run
    /\ result[1].outcome = "skip_imported"
    /\ records_read = 2
    /\ Len(sevdesk) = 1

\* C20: for a COMPLETED record whose 'Created on' is later than its
\* 'Finished on', import_record warns and makes no create_transaction call.
C20_CreatedAfterFinishedIsSkipped ==
    (result # None /\ result[1].warned) => ~result[1].create

\* C21: a run with --dry-run imports nothing: no step of it makes a
\* create_transaction call, adds a transaction to SevDesk, or creates or
\* changes the import-state file.
C21_DryRunImportsNothing ==
    [][((pc = "records" /\ args.dry_run) \/ (pc = "exited" /\ args'.dry_run)) =>
          /\ sevdesk' = sevdesk
          /\ state_file' = state_file
          /\ (result' # result => ~result'[1].create)]_vars

\* a dry run got as far as the import of a record that is not yet imported,
\* with no import-state file
C21_Witness ==
    /\ args.dry_run
    /\ result # None
    /\ result[1].outcome = "dry_run"
    /\ state_file = None
    /\ sevdesk = <<>>

\* C22: within one run, get_check_accounts is requested at most once for a
\* currency; later calls of get_or_create_account are answered from the cache.
C22_OneCheckAccountRequestPerCurrency ==
    \A c \in DOMAIN requests : requests[c] <= 1

\* a call of http_request has ended: it returned, raised, or the process died
WiseEnded == wise.pc \in {"returned", "raised", "died"}

\* the first send of the call was answered by 403 with an x-2fa-approval
\* header, and the client has a signer
Challenged == wise.signer /\ wise.e # None /\ Is2FA(wise.e[1])

\* C23: a call of http_request never sends the request more than twice nor
\* handles more than one challenge; and a call whose first send was answered
\* by 403 with an x-2fa-approval header, on a client with a signer, has at
\* its end handled the challenge once and, unless the handling itself
\* failed, sent the request a second time with the headers of the first
C23_ChallengeHandledAndRetriedOnce ==
    /\ Len(wise.sent) <= 2
    /\ wise.handled <= 1
    /\ (WiseEnded /\ Challenged) =>
          /\ wise.handled = 1
          /\ Len(wise.sent) = 1 => wise.pc # "returned"
          /\ Len(wise.sent) = 2 => RequestHeaders \subseteq wise.sent[2]

\* C23, the part about the retry: a failed retry ends the call with the
\* error of the retry, with no other challenge handled and nothing sent
\* after it
C23_FailedRetryPropagates ==
    [][wise.pc = "retry" =>
          /\ wise'.pc \in {"returned", "raised"}
          /\ wise'.handled = wise.handled
          /\ Len(wise'.sent) = 2
          /\ wise'.pc = "raised" => wise'.raised # None]_vars

\* the polls of the call so far: what get_task_status answered, in order
Polled(i) == upload.seen[i]

\* the answer says that the task is still being processed
StillProcessing(task) == task \in {Some("PENDING"), Some("STARTED")}

\* C24: in a call of upload_document that got a task id, every poll but the
\* last found the task PENDING or STARTED, so no poll follows one that found
\* the task missing or in another status; the call returns with that poll,
\* reporting success exactly if the status is SUCCESS, failure for every
\* other status, and it does not return while the task is PENDING or
\* STARTED
C24_PollsUntilTaskLeavesProcessing ==
    /\ \A i \in 1..(Len(upload.seen) - 1) : StillProcessing(Polled(i))
    /\ upload.pc = "polling" => \A i \in 1..Len(upload.seen) : StillProcessing(Polled(i))
    /\ (upload.pc = "returned" /\ upload.task_id) =>
          /\ Len(upload.seen) > 0
          /\ ~StillProcessing(Polled(Len(upload.seen)))
          /\ (upload.report = "success") = (Polled(Len(upload.seen)) = Some("SUCCESS"))
          /\ (upload.report = "failed") =
                (Polled(Len(upload.seen)) \in
                    {Some("FAILURE"), Some("RETRY"), Some("REVOKED")})
          /\ (upload.report = "not_found") = (Polled(Len(upload.seen)) = None)

\* a call that found the task PENDING, then STARTED, then SUCCESS, and
\* reported success
C24_Witness ==
    /\ upload.pc = "returned"
    /\ upload.seen = <<Some("PENDING"), Some("STARTED"), Some("SUCCESS")>>
    /\ upload.report = "success"

\* the step is a call of get_accounting_type_by_skr
SkrLookup ==
    skr'.calls = skr.calls + 1 /\ skr'.last.op = "get_accounting_type_by_skr"

\* C25: the first lookup after the construction or after a clear_cache makes
\* at least one API request; every later lookup makes none, leaves the
\* cache as it is and returns what the cache holds for the number (None for
\* a miss); clear_cache drops the cache
C25_SkrCacheBuiltOnce ==
    [][/\ SkrLookup =>
            IF skr.lookups = 0
            THEN skr'.requests > skr.requests
            ELSE /\ skr'.requests = skr.requests
                 /\ skr'._skr_cache = skr._skr_cache
                 /\ skr._skr_cache # None
                 /\ ~skr'.last.raised
                 /\ skr'.last.ret =
                       IF skr'.last.skr_number \in DOMAIN skr._skr_cache[1]
                       THEN Some(skr._skr_cache[1][skr'.last.skr_number])
                       ELSE None
       /\ (skr'.calls = skr.calls + 1 /\ skr'.last.op = "clear_cache") =>
            skr'._skr_cache = None /\ skr'.requests = skr.requests]_vars

\* the second lookup since the cache was built was a hit, and the object has
\* made one API request in all: the one of the first lookup
C25_Witness ==
    /\ skr.lookups = 2
    /\ skr.last.op = "get_accounting_type_by_skr"
    /\ skr.last.ret # None
    /\ skr.requests = 1

\* the key of the call ending in the next state is in the cache entry c holds
\* for the call's (object_type, key_field)
InCache(c) ==
    /\ resolver'.last.cache_key \in DOMAIN c
    /\ resolver'.last.key \in DOMAIN c[resolver'.last.cache_key]

\* C26: a call of get_object whose key is in the cache entry of its
\* (object_type, key_field) makes no request, leaves the cache as it is and
\* returns the cached object; otherwise it makes one or two requests, one if
\* the entry exists; it raises ValueError only with the key absent from the
\* entry after a refresh, returns only an object of the entry, and never
\* touches another entry
C26_GetObjectFetchesOnlyOnMiss ==
    [][resolver'.calls = resolver.calls + 1 =>
         LET ck == resolver'.last.cache_key
             made == resolver'.fetches - resolver.fetches
         IN /\ InCache(resolver._cache) =>
                  /\ made = 0
                  /\ resolver'._cache = resolver._cache
                  /\ resolver'.last.raised = ""
                  /\ resolver'.last.ret = Some(resolver._cache[ck][resolver'.last.key])
            /\ ~InCache(resolver._cache) =>
                  /\ made \in {1, 2}
                  /\ ck \in DOMAIN resolver._cache => made = 1
            /\ resolver'.last.raised = "ValueError" =>
                  made >= 1 /\ ~InCache(resolver'._cache) /\ ck \in DOMAIN resolver'._cache
            /\ resolver'.last.raised = "" =>
                  /\ InCache(resolver'._cache)
                  /\ resolver'.last.ret = Some(resolver'._cache[ck][resolver'.last.key])
            /\ (resolver'.last.raised # "SevDeskError" /\ ~InCache(resolver'._cache)) =>
                  resolver'.last.raised = "ValueError"
            /\ \A other \in DOMAIN resolver._cache \ {ck} :
                  /\ other \in DOMAIN resolver'._cache
                  /\ resolver'._cache[other] = resolver._cache[other]]_vars

\* the second call found its key in the cache: one request in all
C26_Witness ==
    /\ resolver.calls = 2
    /\ resolver.fetches = 1
    /\ resolver.last.raised = ""
    /\ resolver.last.key = "hour"

\* a call with an existing entry refreshed it once and raised ValueError
C26_WitnessValueError ==
    /\ resolver.calls = 2
    /\ resolver.fetches = 2
    /\ resolver.last.raised = "ValueError"
    /\ resolver.last.cache_key \in DOMAIN resolver._cache

RECURSIVE EntriesOfPages(_)
\* the entries of the first k pages received, page after page
EntriesOfPages(k) ==
    IF k = 0 THEN <<>>
    ELSE EntriesOfPages(k - 1) \o
         [i \in 1 .. Len(harvest.received[k].time_entries) |->
             harvest.received[k].time_entries[i].id]

====
